---------------------------- MODULE Spec2Model ----------------------------
(***************************************************************************)
(* A model of pygrpc: the protobuf wire codec (protobuf/codec.py) and the  *)
(* gRPC-Web unary call protocol (web/protocol.py, web/service.py).         *)
(*                                                                         *)
(* Bytes are the integers 0..255, a bytes object is a sequence of them and *)
(* a stream is a pair (data, pos) with pos the 1-based index of the next   *)
(* byte to read.  A Python value is a tagged record: an int, a str (a       *)
(* sequence of code points) or a dict (a function from field names to      *)
(* values).  Every operation that can raise returns a record               *)
(* whose err field is "" on a normal return and the exception's class name *)
(* otherwise.                                                              *)
(***************************************************************************)
EXTENDS Integers, Sequences, FiniteSets, TLC

VARIABLES
    vin,        \* varint: the integer handed to write_varint
    vtail,      \* varint: the bytes that follow the varint in the stream
    vbuf,       \* varint: the bytes write_varint wrote
    vout,       \* varint: what read_varint returned
    vpc,        \* varint: "start", "written", "read"
    schema,     \* the MessageType shared by every encode, decode and call
    cval,       \* codec: the value handed to write_message
    cwire,      \* codec: what write_message produced (bytes or an exception)
    cin,        \* codec: the byte region handed to read_message
    cout,       \* codec: what read_message returned
    cpc,        \* codec: "start", "encoded", "decoded", "read"
    fwritten,   \* frames: the (id, data) pairs handed to write_frame, in order
    fbuf,       \* frames: the stream they were written to
    fout,       \* frames: what list(decode_frames(fbuf)) returned
    fpc,        \* frames: "writing", "decoded"
    rbody,      \* response: the body handed to decode_unary_response
    rout,       \* response: what decode_unary_response returned
    rpc,        \* response: "start", "decoded"
    tdata,      \* trailers: the payload handed to decode_trailers
    tout,       \* trailers: what decode_trailers returned
    tpc,        \* trailers: "start", "decoded"
    calls       \* the unary calls: per call its stage and its local variables

varintVars == <<vin, vtail, vbuf, vout, vpc>>

codecVars == <<cval, cwire, cin, cout, cpc>>

frameVars == <<fwritten, fbuf, fout, fpc>>

responseVars == <<rbody, rout, rpc>>

trailerVars == <<tdata, tout, tpc>>

vars == <<vin, vtail, vbuf, vout, vpc, schema, cval, cwire, cin, cout, cpc,
          fwritten, fbuf, fout, fpc, rbody, rout, rpc, tdata, tout, tpc, calls>>

-----------------------------------------------------------------------------
(* Bounds of the model. *)

\* The largest integer handed to write_varint (three-byte varints start at 16384).
MaxVarint == 16500

\* The longest byte sequence that follows a varint in a stream.
MaxTail == 1

\* The longest byte region handed to read_message on its own.
MaxRegion == 3

\* The largest INT32 field value of an encoded message.
MaxFieldInt == 1

\* The longest payload of a frame written by write_frame on its own.
MaxPayload == 2

\* The most frames written back to back to one stream.
MaxFrames == 2

\* The most frames of a response body.
MaxResponseFrames == 3

\* The number of unary calls in flight together.
NumCalls == 2

\* The most lines of a trailer payload.
MaxTrailerLines == 2

\* The most whole frames in front of the last bytes of a buffer.
MaxWholeFrames == 1

\* The largest length the header of the last frame of a buffer declares, and
\* the most payload bytes that follow that header.
MaxDeclared == 2

-----------------------------------------------------------------------------
(* Helpers for results and byte sequences. *)

Ok(v) == [err |-> "", val |-> v]

Err(e) == [err |-> e, val |-> <<>>]

Min(a, b) == IF a < b THEN a ELSE b

RECURSIVE Pow2(_)
Pow2(n) == IF n = 0 THEN 1 ELSE 2 * Pow2(n - 1)

\* stream.read(n) on the stream (data, pos): at most n bytes, fewer at the end.
StreamRead(data, pos, n) == SubSeq(data, pos, Min(pos + n - 1, Len(data)))

-----------------------------------------------------------------------------
(* protobuf/codec.py: varints. *)

RECURSIVE ReadVarintLoop(_, _, _, _)
ReadVarintLoop(data, pos, value, shift) ==
    IF pos > Len(data)
    THEN [err |-> "EOFError", val |-> 0, pos |-> pos]
    ELSE LET payload == data[pos]
             value2  == value + (payload % 128) * Pow2(shift)
             flag    == (payload \div 128) * 128
         IN  IF flag = 0
             THEN [err |-> "", val |-> value2, pos |-> pos + 1]
             ELSE ReadVarintLoop(data, pos + 1, value2, shift + 7)

read_varint(data, pos) == ReadVarintLoop(data, pos, 0, 0)

\* write_varint with the loop test off by one: while value > 0x80.
RECURSIVE WriteVarintLoopGt(_, _)
WriteVarintLoopGt(buf, value) ==
    IF value > 128
    THEN WriteVarintLoopGt(Append(buf, (value % 128) + 128), value \div 128)
    ELSE Append(buf, value)

RECURSIVE WriteVarintLoop(_, _)
WriteVarintLoop(buf, value) ==
    IF value >= 128
    THEN WriteVarintLoop(Append(buf, (value % 128) + 128), value \div 128)
    ELSE Append(buf, value)

\* bytearray.append raises ValueError for a value outside range(256).
write_varint(value) ==
    IF value < 0 THEN Err("ValueError") ELSE Ok(WriteVarintLoop(<<>>, value))


-----------------------------------------------------------------------------
(* protobuf/codec.py: the schema model and Python values. *)

PrimitiveTypeINT32 == [k |-> "INT32"]

PrimitiveTypeSTRING == [k |-> "STRING"]

\* MessageType(fields): fields keeps the dict's insertion order, one record
\* [num, name, type] per entry of MessageFields.
MessageType(fields) == [k |-> "MSG", fields |-> fields]

OptionalType(type, value) == [k |-> "OPT", type |-> type, value |-> value]

Field(num, name, type) == [num |-> num, name |-> name, type |-> type]

\* Python values: k names the type and the field of that type holds the
\* value: i an int, s the code points of a str, d a dict as a function from
\* its keys (the other two fields are at their empty values).
EmptyDict == [n \in {} |-> 0]

PyInt(n) == [k |-> "int", i |-> n, s |-> <<>>, d |-> EmptyDict]

PyStr(s) == [k |-> "str", i |-> 0, s |-> s, d |-> EmptyDict]

PyDict(d) == [k |-> "dict", i |-> 0, s |-> <<>>, d |-> d]

PyNone == [k |-> "none", i |-> 0, s |-> <<>>, d |-> EmptyDict]

\* d[name] = value
DictSet(d, name, value) ==
    [n \in DOMAIN d \cup {name} |-> IF n = name THEN value ELSE d[n]]

\* Python's == on the values of the model.
PyEq(a, b) == a = b

\* The index in fields of the entry whose key is num, 0 when there is none.
FieldIndex(fields, num) ==
    IF \E i \in 1 .. Len(fields) : fields[i].num = num
    THEN CHOOSE i \in 1 .. Len(fields) : fields[i].num = num
    ELSE 0

\* WireType members by value.
WireTypeVARINT == [k |-> "WireType", value |-> 0]

WireTypeLEN == [k |-> "WireType", value |-> 2]

RECURSIVE get_wire_type(_)
get_wire_type(type) ==
    IF type.k = "OPT" THEN get_wire_type(type.type)
    ELSE IF type.k = "MSG" THEN WireTypeLEN
    ELSE IF type.k = "INT32" THEN WireTypeVARINT
    ELSE WireTypeLEN

-----------------------------------------------------------------------------
(* protobuf/codec.py: reading.  A read returns [err, val, pos, unk, trunc]: *)
(* pos is the stream position afterwards; unk and trunc are history flags   *)
(* of the read: unk, that a tag was read whose field number is no key of    *)
(* the fields it was looked up in; trunc, that read_message took an         *)
(* EOFError raised after the field it was reading had consumed bytes as the *)
(* end of the message.                                                      *)

R(err, val, pos, unk, trunc) ==
    [err |-> err, val |-> val, pos |-> pos, unk |-> unk, trunc |-> trunc]

\* bytes.decode("utf-8") for one- and two-byte sequences.
RECURSIVE Utf8Decode(_)
Utf8Decode(b) ==
    IF b = <<>> THEN Ok(<<>>)
    ELSE IF b[1] < 128
    THEN LET rest == Utf8Decode(Tail(b))
         IN  IF rest.err # "" THEN rest ELSE Ok(<<b[1]>> \o rest.val)
    ELSE IF b[1] >= 194 /\ b[1] <= 223 /\ Len(b) >= 2 /\ b[2] >= 128 /\ b[2] <= 191
    THEN LET rest == Utf8Decode(SubSeq(b, 3, Len(b)))
         IN  IF rest.err # "" THEN rest
             ELSE Ok(<<(b[1] - 192) * 64 + (b[2] - 128)>> \o rest.val)
    ELSE Err("UnicodeDecodeError")

ReadBytesValue(data, size) ==
    IF size.err # "" THEN R(size.err, <<>>, size.pos, FALSE, FALSE)
    ELSE LET value == StreamRead(data, size.pos, size.val)
         IN  IF Len(value) # size.val
             THEN R("EOFError", <<>>, size.pos + Len(value), FALSE, FALSE)
             ELSE R("", value, size.pos + Len(value), FALSE, FALSE)

read_bytes(data, pos) == ReadBytesValue(data, read_varint(data, pos))

DecodeBytes(b) ==
    IF b.err # "" THEN R(b.err, PyNone, b.pos, FALSE, FALSE)
    ELSE LET s == Utf8Decode(b.val)
         IN  IF s.err # "" THEN R(s.err, PyNone, b.pos, FALSE, FALSE)
             ELSE R("", PyStr(s.val), b.pos, FALSE, FALSE)

read_string(data, pos) == DecodeBytes(read_bytes(data, pos))

ReadInt(n) == R(n.err, PyInt(n.val), n.pos, FALSE, FALSE)

read_primitive(data, pos, type) ==
    IF type.k = "INT32" THEN ReadInt(read_varint(data, pos))
    ELSE IF type.k = "STRING" THEN read_string(data, pos)
    ELSE R("NotImplementedError", PyNone, pos, FALSE, FALSE)

\* field_number, field_value = x : x is iterated; an int is not iterable, a
\* str yields its characters and a dict its keys (a key is [k |-> "key"]).
Unpack(x) ==
    IF x.k = "int" THEN Err("TypeError")
    ELSE IF x.k = "str"
    THEN IF Len(x.s) = 2
         THEN Ok(<<PyStr(<<x.s[1]>>), PyStr(<<x.s[2]>>)>>)
         ELSE Err("ValueError")
    ELSE IF Cardinality(DOMAIN x.d) = 2
    THEN LET first == CHOOSE n \in DOMAIN x.d : TRUE
             second == CHOOSE n \in DOMAIN x.d : n # first
         IN  Ok(<<[k |-> "key", name |-> first], [k |-> "key", name |-> second]>>)
    ELSE Err("ValueError")

\* fields[key] for a key of any Python type: only an int equals an int key.
FieldLookup(fields, key) ==
    IF key.k = "int" THEN FieldIndex(fields, key.i) ELSE 0

RECURSIVE read_message(_, _, _, _)
RECURSIVE read_message_field(_, _, _)
RECURSIVE ReadMessageLoop(_, _, _, _, _)

\* read_message_field after the tag was read: the lookup of the field number
\* and the read of the value.
ReadFieldValue(data, fields, tag) ==
    IF tag.err # "" THEN R(tag.err, PyNone, tag.pos, FALSE, FALSE)
    ELSE LET field_number == tag.val \div 8
             i == FieldIndex(fields, field_number)
         IN  IF i = 0 THEN R("KeyError", PyNone, tag.pos, TRUE, FALSE)
             ELSE LET declared == fields[i].type
                      field_type == IF declared.k = "OPT"
                                    THEN declared.type ELSE declared
                  IN  IF field_type.k = "MSG"
                      THEN LET size == read_varint(data, tag.pos)
                           IN  IF size.err # ""
                               THEN R(size.err, PyNone, size.pos, FALSE, FALSE)
                               ELSE read_message(data, size.pos,
                                                 field_type, size.val)
                      ELSE read_primitive(data, tag.pos, field_type)

read_message_field(data, pos, fields) ==
    ReadFieldValue(data, fields, read_varint(data, pos))

\* read_message with "except Exception: break" for "except EOFError: break".
ReadMessageStepCatchAll(sub, spos, fields, message, trunc, f) ==
    IF f.err # ""
    THEN R("", PyDict(message), spos, f.unk,
           trunc \/ f.trunc \/ spos <= Len(sub))
    ELSE LET u == Unpack(f.val)
         IN  IF u.err # "" THEN R(u.err, PyNone, f.pos, f.unk, trunc \/ f.trunc)
             ELSE LET i == FieldLookup(fields, u.val[1])
                  IN  IF i = 0
                      THEN R("KeyError", PyNone, f.pos, f.unk, trunc \/ f.trunc)
                      ELSE ReadMessageLoop(sub, f.pos, fields,
                               DictSet(message, fields[i].name, u.val[2]),
                               trunc \/ f.trunc)

\* One iteration of the while loop of read_message, f being what
\* read_message_field returned or raised at (sub, spos).
ReadMessageStep(sub, spos, fields, message, trunc, f) ==
    IF f.err = "EOFError"
    THEN R("", PyDict(message), spos, f.unk,
           trunc \/ f.trunc \/ spos <= Len(sub))
    ELSE IF f.err # "" THEN R(f.err, PyNone, f.pos, f.unk, trunc \/ f.trunc)
    ELSE LET u == Unpack(f.val)
         IN  IF u.err # "" THEN R(u.err, PyNone, f.pos, f.unk, trunc \/ f.trunc)
             ELSE LET i == FieldLookup(fields, u.val[1])
                  IN  IF i = 0
                      THEN R("KeyError", PyNone, f.pos, f.unk, trunc \/ f.trunc)
                      ELSE ReadMessageLoop(sub, f.pos, fields,
                               DictSet(message, fields[i].name, u.val[2]),
                               trunc \/ f.trunc)

\* The while loop of read_message over the substream (sub, spos).
ReadMessageLoop(sub, spos, fields, message, trunc) ==
    ReadMessageStep(sub, spos, fields, message, trunc,
                    read_message_field(sub, spos, fields))

\* read_message's return: the stream has advanced over the n bytes it read.
ReadMessageReturn(m, pos, n) == R(m.err, m.val, pos + n, m.unk, m.trunc)

read_message(data, pos, message_type, size) ==
    LET sub == StreamRead(data, pos, size)
    IN  IF sub = <<>> THEN R("EOFError", PyNone, pos, FALSE, FALSE)
        ELSE ReadMessageReturn(
                 ReadMessageLoop(sub, 1, message_type.fields, EmptyDict, FALSE),
                 pos, Len(sub))

-----------------------------------------------------------------------------
(* protobuf/codec.py: writing.  A write returns Ok(the bytes written) or *)
(* Err(the exception).                                                   *)

\* int | WireType: WireType is a plain Enum, which defines no __or__/__ror__.
IntOrWireType(n, wire_type) == Err("TypeError")

write_message_field(field_type, field_number, value) ==
    IF field_type.k = "OPT" /\ PyEq(value, field_type.value) THEN Ok(<<>>)
    ELSE LET wire_type == get_wire_type(field_type)
             tag == IntOrWireType(field_number * 8, wire_type)
         IN  IF tag.err # "" THEN tag
             ELSE LET t == write_varint(tag.val)
                  IN  IF t.err # "" THEN t
                      \* write(stream, base_type, value): base_type is no name
                      ELSE Err("NameError")

RECURSIVE WriteMessageLoop(_, _, _, _)
WriteMessageLoop(fields, i, value, buf) ==
    IF i > Len(fields) THEN Ok(buf)
    ELSE IF fields[i].name \notin DOMAIN value THEN Err("KeyError")
    ELSE LET w == write_message_field(fields[i].type, fields[i].num,
                                      value[fields[i].name])
         IN  IF w.err # "" THEN w
             ELSE WriteMessageLoop(fields, i + 1, value, buf \o w.val)

write_message(message_type, value) ==
    WriteMessageLoop(message_type.fields, 1, value, <<>>)

-----------------------------------------------------------------------------
(* web/protocol.py: frames. *)

\* FrameId members by value (a one-byte bytes object).
FrameIdMESSAGE == 0

FrameIdTRAILER == 128

\* FrameId.of(value)
FrameIdOf(value) ==
    IF value = <<FrameIdMESSAGE>> THEN Ok(FrameIdMESSAGE)
    ELSE IF value = <<FrameIdTRAILER>> THEN Ok(FrameIdTRAILER)
    ELSE Err("UnknownFrameIdError")

\* int.to_bytes(length, byteorder="big", signed=False)
RECURSIVE BigEndian(_, _)
BigEndian(n, length) ==
    IF length = 0 THEN <<>>
    ELSE Append(BigEndian(n \div 256, length - 1), n % 256)

\* to_bytes with byteorder="little".
RECURSIVE LittleEndian(_, _)
LittleEndian(n, length) ==
    IF length = 0 THEN <<>>
    ELSE <<n % 256>> \o LittleEndian(n \div 256, length - 1)

ToBytesLittle(n, length) ==
    IF n \div Pow2(8 * (length - 1)) >= 256 THEN Err("OverflowError")
    ELSE Ok(LittleEndian(n, length))

\* (OverflowError when n does not fit: n >= 256 ** length)
ToBytes(n, length) ==
    IF n \div Pow2(8 * (length - 1)) >= 256 THEN Err("OverflowError")
    ELSE Ok(BigEndian(n, length))

\* int.from_bytes(data, byteorder="big", signed=False)
RECURSIVE FromBytes(_)
FromBytes(data) ==
    IF data = <<>> THEN 0
    ELSE FromBytes(SubSeq(data, 1, Len(data) - 1)) * 256 + data[Len(data)]

WriteFrameLength(id, size, data) ==
    IF size.err # "" THEN size ELSE Ok(<<id>> \o size.val \o data)

write_frame(id, data) == WriteFrameLength(id, ToBytes(Len(data), 4), data)

\* A frame read: [err, id, data, pos].
F(err, id, data, pos) == [err |-> err, id |-> id, data |-> data, pos |-> pos]

\* read_frame without the test of the payload's length.
ReadFramePayloadUnchecked(data, pos, frame_id) ==
    LET header == StreamRead(data, pos, 4)
    IN  IF Len(header) # 4 THEN F("EOFError", 0, <<>>, pos + Len(header))
        ELSE LET size == FromBytes(header)
                 payload == StreamRead(data, pos + 4, size)
             IN  F("", frame_id, payload, pos + 4 + Len(payload))

ReadFramePayload(data, pos, frame_id) ==
    LET header == StreamRead(data, pos, 4)
    IN  IF Len(header) # 4 THEN F("EOFError", 0, <<>>, pos + Len(header))
        ELSE LET size == FromBytes(header)
                 payload == StreamRead(data, pos + 4, size)
             IN  IF Len(payload) # size
                 THEN F("EOFError", 0, <<>>, pos + 4 + Len(payload))
                 ELSE F("", frame_id, payload, pos + 4 + size)

ReadFrameId(data, pos, frame_id) ==
    IF frame_id.err # "" THEN F(frame_id.err, 0, <<>>, pos)
    ELSE ReadFramePayload(data, pos, frame_id.val)

read_frame(data, pos) ==
    IF StreamRead(data, pos, 1) = <<>> THEN F("EOFError", 0, <<>>, pos)
    ELSE ReadFrameId(data, pos + 1, FrameIdOf(StreamRead(data, pos, 1)))

RECURSIVE DecodeFramesLoop(_, _, _)

DecodeFramesStep(data, frames, f) ==
    IF f.err # "" THEN Err(f.err)
    ELSE DecodeFramesLoop(data, f.pos, Append(frames, [id |-> f.id, data |-> f.data]))

DecodeFramesLoop(data, pos, frames) ==
    IF pos - 1 = Len(data) THEN Ok(frames)
    ELSE DecodeFramesStep(data, frames, read_frame(data, pos))

\* list(decode_frames(data)): the frames the generator yields, or what it raises.
decode_frames(data) == DecodeFramesLoop(data, 1, <<>>)

-----------------------------------------------------------------------------
(* web/protocol.py: trailers.  A str is the sequence of its code points; a *)
(* Trailers or Headers dict is a function from keys to values, and where   *)
(* its iteration order matters the sequence of its items in that order.    *)

CR == 13

LF == 10

Colon == 58

Space == 32

\* The code points str.strip() removes.
Whitespace == {9, 10, 11, 12, 13, 28, 29, 30, 31, 32, 133, 160}

\* str.encode("utf-8") for code points below 2048.
RECURSIVE Utf8Encode(_)
Utf8Encode(text) ==
    IF text = <<>> THEN <<>>
    ELSE IF text[1] < 128 THEN <<text[1]>> \o Utf8Encode(Tail(text))
    ELSE <<192 + (text[1] \div 64), 128 + (text[1] % 64)>> \o Utf8Encode(Tail(text))

RECURSIVE LStrip(_)
LStrip(text) ==
    IF text # <<>> /\ text[1] \in Whitespace THEN LStrip(Tail(text)) ELSE text

RECURSIVE RStrip(_)
RStrip(text) ==
    IF text # <<>> /\ text[Len(text)] \in Whitespace
    THEN RStrip(SubSeq(text, 1, Len(text) - 1))
    ELSE text

Strip(text) == RStrip(LStrip(text))

\* text.split("\r\n"): lines is the list so far, line the segment being read.
RECURSIVE SplitCRLF(_, _, _, _)
SplitCRLF(text, i, lines, line) ==
    IF i > Len(text) THEN Append(lines, line)
    ELSE IF text[i] = CR /\ i < Len(text) /\ text[i + 1] = LF
    THEN SplitCRLF(text, i + 2, Append(lines, line), <<>>)
    ELSE SplitCRLF(text, i + 1, lines, Append(line, text[i]))

\* The index of the first colon of line, 0 when it has none.
FirstColon(line) ==
    IF \E i \in 1 .. Len(line) : line[i] = Colon
    THEN CHOOSE i \in 1 .. Len(line) :
             line[i] = Colon /\ \A j \in 1 .. i - 1 : line[j] # Colon
    ELSE 0

\* The for loop of decode_trailers over lines[:-1].
RECURSIVE DecodeTrailersLoop(_, _, _)
DecodeTrailersLoop(lines, i, trailers) ==
    IF i > Len(lines) - 1 THEN Ok(trailers)
    ELSE LET c == FirstColon(lines[i])
         IN  IF c = 0 THEN Err("ValueError")
             ELSE DecodeTrailersLoop(lines, i + 1,
                      DictSet(trailers,
                              Strip(SubSeq(lines[i], 1, c - 1)),
                              Strip(SubSeq(lines[i], c + 1, Len(lines[i])))))

DecodeTrailersText(text) ==
    IF text.err # "" THEN text
    ELSE DecodeTrailersLoop(SplitCRLF(text.val, 1, <<>>, <<>>), 1, EmptyDict)

decode_trailers(data) == DecodeTrailersText(Utf8Decode(data))

\* The body of write_trailer_frame's loop: f"{k}: {v}\r\n" for every item.
RECURSIVE EncodeTrailers(_)
EncodeTrailers(items) ==
    IF items = <<>> THEN <<>>
    ELSE Utf8Encode(items[1][1] \o <<Colon, Space>> \o items[1][2] \o <<CR, LF>>)
             \o EncodeTrailers(Tail(items))

write_trailer_frame(trailers) == write_frame(FrameIdTRAILER, EncodeTrailers(trailers))

WriteMessageFrameData(data) ==
    IF data.err # "" THEN data ELSE write_frame(FrameIdMESSAGE, data.val)

\* message.model_dump() is the dict value of the model.
write_message_frame(type, message) ==
    WriteMessageFrameData(write_message(type, message.d))

-----------------------------------------------------------------------------
(* base64.b64encode and base64.b64decode (binascii, not strict).  The text *)
(* is a bytes object of ASCII characters.                                   *)

Pad == 61

\* The character of a six-bit value.
B64Char(n) ==
    IF n < 26 THEN 65 + n
    ELSE IF n < 52 THEN 97 + (n - 26)
    ELSE IF n < 62 THEN 48 + (n - 52)
    ELSE IF n = 62 THEN 43 ELSE 47

\* The six-bit value of a character, 64 for a character not of the alphabet.
B64Value(c) ==
    IF c >= 65 /\ c <= 90 THEN c - 65
    ELSE IF c >= 97 /\ c <= 122 THEN c - 97 + 26
    ELSE IF c >= 48 /\ c <= 57 THEN c - 48 + 52
    ELSE IF c = 43 THEN 62
    ELSE IF c = 47 THEN 63
    ELSE 64

RECURSIVE b64encode(_)
b64encode(data) ==
    IF data = <<>> THEN <<>>
    ELSE IF Len(data) = 1
    THEN <<B64Char(data[1] \div 4), B64Char((data[1] % 4) * 16), Pad, Pad>>
    ELSE IF Len(data) = 2
    THEN <<B64Char(data[1] \div 4),
           B64Char((data[1] % 4) * 16 + data[2] \div 16),
           B64Char((data[2] % 16) * 4), Pad>>
    ELSE <<B64Char(data[1] \div 4),
           B64Char((data[1] % 4) * 16 + data[2] \div 16),
           B64Char((data[2] % 16) * 4 + data[3] \div 64),
           B64Char(data[3] % 64)>> \o b64encode(SubSeq(data, 4, Len(data)))

\* binascii.a2b_base64: quad_pos is the position in the current group of
\* four, leftchar the bits not yet written, pads the run of "=" just seen.
RECURSIVE A2bBase64(_, _, _, _, _, _)
A2bBase64(text, i, quad_pos, leftchar, pads, bin) ==
    IF i > Len(text)
    THEN IF quad_pos # 0 THEN Err("binascii.Error") ELSE Ok(bin)
    ELSE IF text[i] = Pad
    THEN IF quad_pos >= 2 /\ quad_pos + pads + 1 >= 4 THEN Ok(bin)
         ELSE A2bBase64(text, i + 1, quad_pos, leftchar,
                        IF quad_pos >= 2 THEN pads + 1 ELSE pads, bin)
    ELSE LET this_ch == B64Value(text[i])
         IN  IF this_ch >= 64
             THEN A2bBase64(text, i + 1, quad_pos, leftchar, pads, bin)
             ELSE IF quad_pos = 0
             THEN A2bBase64(text, i + 1, 1, this_ch, 0, bin)
             ELSE IF quad_pos = 1
             THEN A2bBase64(text, i + 1, 2, this_ch % 16, 0,
                            Append(bin, leftchar * 4 + this_ch \div 16))
             ELSE IF quad_pos = 2
             THEN A2bBase64(text, i + 1, 3, this_ch % 4, 0,
                            Append(bin, leftchar * 16 + this_ch \div 4))
             ELSE A2bBase64(text, i + 1, 0, 0, 0,
                            Append(bin, leftchar * 64 + this_ch))

b64decode(text) == A2bBase64(text, 1, 0, 0, 0, <<>>)

-----------------------------------------------------------------------------
(* web/protocol.py: the unary request and response. *)

\* protobuf.decode_message(data, type): the outermost decode, whose region is
\* the whole buffer.
decode_message(data, type) == read_message(data, 1, type, Len(data))

\* TypeAdapter(model).validate_python(mapping) for the model the schema was
\* derived from: a field with a default is an OptionalType of the schema, any
\* other field is required.
RECURSIVE validate_python(_, _)
validate_python(type, mapping) ==
    LET fields == type.fields
        idx == 1 .. Len(fields)
        base(i) == IF fields[i].type.k = "OPT" THEN fields[i].type.type
                   ELSE fields[i].type
        sub(i) == validate_python(base(i), mapping[fields[i].name].d)
        missing == {i \in idx : fields[i].name \notin DOMAIN mapping
                                  /\ fields[i].type.k # "OPT"}
        nested == {i \in idx : fields[i].name \in DOMAIN mapping
                                 /\ base(i).k = "MSG"}
    IN  IF missing # {} \/ \E i \in nested : sub(i).err # ""
        THEN [err |-> "ValidationError", val |-> PyNone]
        ELSE [err |-> "",
              val |-> PyDict([n \in {fields[i].name : i \in idx} |->
                        LET i == CHOOSE j \in idx : fields[j].name = n
                        IN  IF n \notin DOMAIN mapping THEN fields[i].type.value
                            ELSE IF i \in nested THEN sub(i).val
                            ELSE mapping[n]])]

\* What decode_unary_response returns or raises: [err, message, trailers].
U(err, message, trailers) ==
    [err |-> err, message |-> message, trailers |-> trailers]

ResponseTrailers(message, trailers) ==
    IF trailers.err # "" THEN U(trailers.err, PyNone, EmptyDict)
    ELSE U("", message, trailers.val)

ResponseValidated(message, trailer_frames) ==
    IF message.err # "" THEN U(message.err, PyNone, EmptyDict)
    ELSE IF trailer_frames = <<>> THEN U("", message.val, EmptyDict)
    ELSE ResponseTrailers(message.val, decode_trailers(trailer_frames[1].data))

ResponseDecoded(type, decoded, trailer_frames) ==
    IF decoded.err # "" THEN U(decoded.err, PyNone, EmptyDict)
    ELSE ResponseValidated(validate_python(type, decoded.val.d), trailer_frames)

\* The message decode shared by the one-frame and the two-frame branch.
ResponseMessage(type, frame_data, trailer_frames) ==
    ResponseDecoded(type, decode_message(frame_data, type), trailer_frames)

\* decode_unary_response with "and" for "or" in the two-frame test.
ResponseFramesAnd(type, frames) ==
    IF frames.err # "" THEN U(frames.err, PyNone, EmptyDict)
    ELSE IF Len(frames.val) = 0 THEN U("FrameExpectedError", PyNone, EmptyDict)
    ELSE IF Len(frames.val) = 1
    THEN IF frames.val[1].id # FrameIdMESSAGE
         THEN U("FrameExpectedError", PyNone, EmptyDict)
         ELSE ResponseMessage(type, frames.val[1].data, <<>>)
    ELSE IF Len(frames.val) = 2
    THEN IF frames.val[1].id # FrameIdMESSAGE /\ frames.val[2].id # FrameIdTRAILER
         THEN U("UnexpectedFrameError", PyNone, EmptyDict)
         ELSE ResponseMessage(type, frames.val[1].data, <<frames.val[2]>>)
    ELSE U("UnexpectedFrameError", PyNone, EmptyDict)

\* decode_unary_response from the if over len(frames) on.
ResponseFrames(type, frames) ==
    IF frames.err # "" THEN U(frames.err, PyNone, EmptyDict)
    ELSE IF Len(frames.val) = 0 THEN U("FrameExpectedError", PyNone, EmptyDict)
    ELSE IF Len(frames.val) = 1
    THEN IF frames.val[1].id # FrameIdMESSAGE
         THEN U("FrameExpectedError", PyNone, EmptyDict)
         ELSE ResponseMessage(type, frames.val[1].data, <<>>)
    ELSE IF Len(frames.val) = 2
    THEN IF frames.val[1].id # FrameIdMESSAGE \/ frames.val[2].id # FrameIdTRAILER
         THEN U("UnexpectedFrameError", PyNone, EmptyDict)
         ELSE ResponseMessage(type, frames.val[1].data, <<frames.val[2]>>)
    ELSE U("UnexpectedFrameError", PyNone, EmptyDict)

ResponseRaw(type, raw) ==
    IF raw.err # "" THEN U(raw.err, PyNone, EmptyDict)
    ELSE ResponseFrames(type, decode_frames(raw.val))

decode_unary_response(data, type) == ResponseRaw(type, b64decode(data))

\* encode_unary_request without the "if trailers:" test.
RequestFramesAlwaysTrailer(message_frame, trailers) ==
    IF message_frame.err # "" THEN message_frame
    ELSE LET trailer_frame == write_trailer_frame(trailers)
         IN  IF trailer_frame.err # "" THEN trailer_frame
             ELSE Ok(b64encode(message_frame.val \o trailer_frame.val))

RequestFrames(message_frame, trailers) ==
    IF message_frame.err # "" THEN message_frame
    ELSE IF trailers # <<>>
    THEN LET trailer_frame == write_trailer_frame(trailers)
         IN  IF trailer_frame.err # "" THEN trailer_frame
             ELSE Ok(b64encode(message_frame.val \o trailer_frame.val))
    ELSE Ok(b64encode(message_frame.val))

encode_unary_request(type, message, trailers) ==
    RequestFrames(write_message_frame(type, message), trailers)

\* The headers unary_unary_call sends: the caller's, then the protocol's.
ProtocolHeaders ==
    [n \in {"Accept", "Content-Type", "X-User-Agent"} |->
        IF n = "X-User-Agent" THEN "grpc-web-javascript/0.1"
        ELSE "application/grpc-web-text"]

\* The merge the other way round: {protocol headers, **request_headers}.
MergeHeadersCallerWins(request_headers) ==
    [n \in DOMAIN request_headers \cup DOMAIN ProtocolHeaders |->
        IF n \in DOMAIN request_headers THEN request_headers[n]
        ELSE ProtocolHeaders[n]]

MergeHeaders(request_headers) ==
    [n \in DOMAIN request_headers \cup DOMAIN ProtocolHeaders |->
        IF n \in DOMAIN ProtocolHeaders THEN ProtocolHeaders[n]
        ELSE request_headers[n]]

-----------------------------------------------------------------------------
(* The schemas, values and byte regions of the model. *)

\* {1: ("a", INT32), 2: ("b", STRING)}
SchemaPlain ==
    MessageType(<<Field(1, "a", PrimitiveTypeINT32),
                  Field(2, "b", PrimitiveTypeSTRING)>>)

\* {1: ("a", OptionalType(INT32, 0)), 2: ("b", OptionalType(STRING, ""))}
SchemaOptional ==
    MessageType(<<Field(1, "a", OptionalType(PrimitiveTypeINT32, PyInt(0))),
                  Field(2, "b", OptionalType(PrimitiveTypeSTRING, PyStr(<<>>)))>>)

\* {1: ("a", OptionalType(INT32, 0)), 3: ("m", MessageType({1: ("x", INT32)}))}
SchemaNested ==
    MessageType(<<Field(1, "a", OptionalType(PrimitiveTypeINT32, PyInt(0))),
                  Field(3, "m", MessageType(
                      <<Field(1, "x", PrimitiveTypeINT32)>>))>>)

\* {3: ("m", OptionalType(MessageType({1: ("x", OptionalType(INT32, 0))}),
\*                        {"x": 0}))}
SchemaOptionalNested ==
    MessageType(<<Field(3, "m", OptionalType(
                      MessageType(<<Field(1, "x",
                          OptionalType(PrimitiveTypeINT32, PyInt(0)))>>),
                      PyDict([n \in {"x"} |-> PyInt(0)])))>>)

Schemas == {SchemaPlain, SchemaOptional, SchemaNested, SchemaOptionalNested}

\* "hi"
StrHi == <<104, 105>>

\* The values that conform to a type.
RECURSIVE ValuesOf(_)
ValuesOf(type) ==
    IF type.k = "OPT" THEN ValuesOf(type.type)
    ELSE IF type.k = "INT32" THEN {PyInt(n) : n \in 0 .. MaxFieldInt}
    ELSE IF type.k = "STRING" THEN {PyStr(<<>>), PyStr(StrHi)}
    ELSE LET fields == type.fields
             names == {fields[i].name : i \in 1 .. Len(fields)}
             typeOf(n) == fields[CHOOSE i \in 1 .. Len(fields) : fields[i].name = n].type
             all == UNION {ValuesOf(fields[i].type) : i \in 1 .. Len(fields)}
         IN  {PyDict(e) : e \in {e \in [names -> all] :
                                   \A n \in names : e[n] \in ValuesOf(typeOf(n))}}

\* The bytes of a region: the tags of fields 1 (varint), 2 and 3 (LEN) and
\* 4 (varint), the small integers 1 and 2, a continuation byte and "h".
RegionBytes == {8, 18, 26, 32, 1, 2, 128, 104}

RECURSIVE SeqsUpTo(_, _)
SeqsUpTo(S, n) ==
    IF n = 0 THEN {<<>>}
    ELSE LET shorter == SeqsUpTo(S, n - 1)
         IN  shorter \cup {Append(q, x) : q \in {r \in shorter : Len(r) = n - 1}, x \in S}

Regions == SeqsUpTo(RegionBytes, MaxRegion)

-----------------------------------------------------------------------------
(* The parts of the state a specification does not use stay as they start. *)

NoRead == R("", PyNone, 0, FALSE, FALSE)

VarintIdle ==
    /\ vin = 0
    /\ vtail = <<>>
    /\ vbuf = <<>>
    /\ vout = [err |-> "", val |-> 0, pos |-> 0]
    /\ vpc = "start"

CodecIdle ==
    /\ cval = PyDict(EmptyDict)
    /\ cwire = Ok(<<>>)
    /\ cin = <<>>
    /\ cout = NoRead
    /\ cpc = "start"

FrameIdle ==
    /\ fwritten = <<>>
    /\ fbuf = <<>>
    /\ fout = Ok(<<>>)
    /\ fpc = "writing"

ResponseIdle ==
    /\ rbody = <<>>
    /\ rout = U("", PyNone, EmptyDict)
    /\ rpc = "start"

TrailerIdle ==
    /\ tdata = <<>>
    /\ tout = Ok(EmptyDict)
    /\ tpc = "start"

Calls == 1 .. NumCalls

\* A call that run has not been called for.
NoHeaders == [n \in {} |-> ""]

IdleCall ==
    [pc |-> "Idle", message |-> PyNone, headers |-> NoHeaders,
     trailers |-> <<>>, sent_headers |-> NoHeaders, request_data |-> <<>>,
     exchanges |-> 0, response_data |-> <<>>, response_message |-> PyNone,
     response_trailers |-> EmptyDict, error |-> ""]

CallsIdle == calls = [i \in Calls |-> IdleCall]

-----------------------------------------------------------------------------
(* The varint round trip: one value written, then read back from a stream *)
(* in which other bytes follow it.                                        *)

VarintInit ==
    /\ vin \in 0 .. MaxVarint
    /\ vtail \in SeqsUpTo({0, 1, 128}, MaxTail)
    /\ vbuf = <<>>
    /\ vout = [err |-> "", val |-> 0, pos |-> 0]
    /\ vpc = "start"
    /\ schema = SchemaPlain
    /\ CodecIdle /\ FrameIdle /\ ResponseIdle /\ TrailerIdle /\ CallsIdle

WriteVarint ==
    /\ vpc = "start"
    /\ vbuf' = write_varint(vin).val
    /\ vpc' = "written"
    /\ UNCHANGED <<vin, vtail, vout, schema, codecVars, frameVars, responseVars,
                 trailerVars, calls>>

ReadVarint ==
    /\ vpc = "written"
    /\ vout' = read_varint(vbuf \o vtail, 1)
    /\ vpc' = "read"
    /\ UNCHANGED <<vin, vtail, vbuf, schema, codecVars, frameVars, responseVars,
                 trailerVars, calls>>

VarintNext == WriteVarint \/ ReadVarint

SpecVarint == VarintInit /\ [][VarintNext]_vars

-----------------------------------------------------------------------------
(* The codec: one message of the shared schema is encoded and the bytes   *)
(* decoded again, or one byte region is decoded.                          *)

CodecInit ==
    /\ schema \in Schemas
    /\ VarintIdle /\ CodecIdle /\ FrameIdle /\ ResponseIdle /\ TrailerIdle /\ CallsIdle

EncodeMessage ==
    /\ cpc = "start"
    /\ \E v \in ValuesOf(schema) :
          /\ cval' = v
          /\ cwire' = write_message(schema, v.d)
    /\ cpc' = "encoded"
    /\ UNCHANGED <<cin, cout, schema, varintVars, frameVars, responseVars,
                 trailerVars, calls>>

DecodeEncoded ==
    /\ cpc = "encoded"
    /\ cwire.err = ""
    /\ cin' = cwire.val
    /\ cout' = decode_message(cwire.val, schema)
    /\ cpc' = "decoded"
    /\ UNCHANGED <<cval, cwire, schema, varintVars, frameVars, responseVars,
                 trailerVars, calls>>

DecodeRegion ==
    /\ cpc = "start"
    /\ \E r \in Regions :
          /\ cin' = r
          /\ cout' = decode_message(r, schema)
    /\ cpc' = "read"
    /\ UNCHANGED <<cval, cwire, schema, varintVars, frameVars, responseVars,
                 trailerVars, calls>>

CodecNext == EncodeMessage \/ DecodeEncoded \/ DecodeRegion

SpecCodec == CodecInit /\ [][CodecNext]_vars

-----------------------------------------------------------------------------
(* Frames: frames are written back to back to one stream, which is then   *)
(* read with decode_frames.                                               *)

FramePayloads == SeqsUpTo({0, 128}, MaxPayload)

FrameInit ==
    /\ schema = SchemaPlain
    /\ VarintIdle /\ CodecIdle /\ FrameIdle /\ ResponseIdle /\ TrailerIdle /\ CallsIdle

WriteFrame ==
    /\ fpc = "writing"
    /\ Len(fwritten) < MaxFrames
    /\ \E id \in {FrameIdMESSAGE, FrameIdTRAILER}, data \in FramePayloads :
          /\ fwritten' = Append(fwritten, [id |-> id, data |-> data])
          /\ fbuf' = fbuf \o write_frame(id, data).val
    /\ UNCHANGED <<fout, fpc, schema, varintVars, codecVars, responseVars,
                 trailerVars, calls>>

DecodeFrames ==
    /\ fpc = "writing"
    /\ fout' = decode_frames(fbuf)
    /\ fpc' = "decoded"
    /\ UNCHANGED <<fwritten, fbuf, schema, varintVars, codecVars, responseVars,
                 trailerVars, calls>>

FrameNext == WriteFrame \/ DecodeFrames

SpecFrames == FrameInit /\ [][FrameNext]_vars

-----------------------------------------------------------------------------
(* Buffers: whole frames are written to a stream, then the last bytes,    *)
(* which may be a frame cut short or start with a byte that is no frame   *)
(* id, and the buffer is read with decode_frames.                         *)

\* The last bytes of a buffer: every non-empty prefix of a tag byte (0x01 is
\* no frame id), a four-byte length and some payload bytes.
LastBytes ==
    UNION {{SubSeq(<<tag>> \o BigEndian(n, 4) \o data, 1, k) :
               k \in 1 .. 5 + Len(data)} :
              tag \in {FrameIdMESSAGE, FrameIdTRAILER, 1},
              n \in 0 .. MaxDeclared,
              data \in SeqsUpTo({0, 128}, MaxDeclared)}

WriteWholeFrame ==
    /\ fpc = "writing"
    /\ Len(fwritten) < MaxWholeFrames
    /\ \E id \in {FrameIdMESSAGE, FrameIdTRAILER}, data \in {<<>>, <<128>>} :
          /\ fwritten' = Append(fwritten, [id |-> id, data |-> data])
          /\ fbuf' = fbuf \o write_frame(id, data).val
    /\ UNCHANGED <<fout, fpc, schema, varintVars, codecVars, responseVars,
                 trailerVars, calls>>

DecodeBuffer ==
    /\ fpc = "writing"
    /\ \E last \in LastBytes :
          /\ fbuf' = fbuf \o last
          /\ fout' = decode_frames(fbuf \o last)
    /\ fpc' = "read"
    /\ UNCHANGED <<fwritten, schema, varintVars, codecVars, responseVars,
                 trailerVars, calls>>

BufferNext == WriteWholeFrame \/ DecodeBuffer

SpecBuffers == FrameInit /\ [][BufferNext]_vars

-----------------------------------------------------------------------------
(* Trailers: one payload, a few lines each ended by CRLF but for the last, *)
(* which may have no terminator, is handed to decode_trailers.             *)

\* The lines of a trailer payload: "a: 1", "a:2", " b : 2 ", "a:b:c", ":",
\* "a" (no colon) and the empty line.
TrailerLines ==
    {<<97, 58, 32, 49>>, <<97, 58, 50>>, <<32, 98, 32, 58, 32, 50, 32>>,
     <<97, 58, 98, 58, 99>>, <<58>>, <<97>>, <<>>}

\* The lines joined, each followed by CRLF, the last one only when
\* terminated is TRUE.
RECURSIVE JoinLines(_, _)
JoinLines(lines, terminated) ==
    IF lines = <<>> THEN <<>>
    ELSE IF Len(lines) = 1 /\ ~terminated THEN lines[1]
    ELSE lines[1] \o <<CR, LF>> \o JoinLines(Tail(lines), terminated)

TrailerPayloads ==
    {Utf8Encode(JoinLines(lines, terminated)) :
        lines \in SeqsUpTo(TrailerLines, MaxTrailerLines),
        terminated \in BOOLEAN}

TrailerInit ==
    /\ schema = SchemaPlain
    /\ VarintIdle /\ CodecIdle /\ FrameIdle /\ ResponseIdle /\ TrailerIdle
    /\ CallsIdle

DecodeTrailers ==
    /\ tpc = "start"
    /\ \E data \in TrailerPayloads :
          /\ tdata' = data
          /\ tout' = decode_trailers(data)
    /\ tpc' = "decoded"
    /\ UNCHANGED <<schema, varintVars, codecVars, frameVars, responseVars, calls>>

TrailerNext == DecodeTrailers

SpecTrailers == TrailerInit /\ [][TrailerNext]_vars

-----------------------------------------------------------------------------
(* The response: one body, as the transport returned it, is handed to     *)
(* decode_unary_response.                                                 *)

\* "a: 1\r\n", "b: 2\r\n" and the line "a\r\n", which has no colon.
TrailerA == <<97, 58, 32, 49, 13, 10>>

TrailerB == <<98, 58, 32, 50, 13, 10>>

TrailerNoColon == <<97, 13, 10>>

\* The payloads of the frames of a response: no bytes, a tag with no value,
\* a whole INT32 field, and the trailer blocks.
ResponsePayloads == {<<>>, <<8>>, <<8, 1>>, TrailerA, TrailerNoColon}

ResponseFrameSet ==
    {write_frame(id, data).val :
        id \in {FrameIdMESSAGE, FrameIdTRAILER}, data \in ResponsePayloads}

RECURSIVE Concat(_)
Concat(seqs) == IF seqs = <<>> THEN <<>> ELSE seqs[1] \o Concat(Tail(seqs))

\* Bodies that are no frame sequence: a frame cut short, a tag byte that is
\* no frame id, and base64 text that is cut short.
DamagedBodies ==
    {b64encode(<<0, 0, 0>>), b64encode(<<0, 0, 0, 0, 2, 8>>),
     b64encode(<<1, 0, 0, 0, 0>>), <<65>>, <<65, 65>>}

ResponseBodies ==
    {b64encode(Concat(fs)) : fs \in SeqsUpTo(ResponseFrameSet, MaxResponseFrames)}
        \cup DamagedBodies

ResponseInit ==
    /\ schema \in Schemas
    /\ VarintIdle /\ CodecIdle /\ FrameIdle /\ ResponseIdle /\ TrailerIdle /\ CallsIdle

DecodeResponse ==
    /\ rpc = "start"
    /\ \E body \in ResponseBodies :
          /\ rbody' = body
          /\ rout' = decode_unary_response(body, schema)
    /\ rpc' = "decoded"
    /\ UNCHANGED <<schema, varintVars, codecVars, frameVars, trailerVars, calls>>

ResponseNext == DecodeResponse

SpecResponse == ResponseInit /\ [][ResponseNext]_vars

-----------------------------------------------------------------------------
(* The unary calls.  A call is at "Idle" until run is called for it, then  *)
(* at "Building" (the headers are merged and the request body is encoded), *)
(* "Sent" (the one POST is awaited), "Parsing" (the response body is being *)
(* decoded), and ends at "Done" (it returned) or "Failed" (it raised).     *)

\* The headers a caller passes to run: none, or its own values under the
\* protocol's names and one more header.
CallerHeaders ==
    {NoHeaders,
     [n \in {"Accept", "Content-Type", "X-User-Agent", "Authorization"} |->
         IF n = "Accept" THEN "text/plain"
         ELSE IF n = "Content-Type" THEN "application/json"
         ELSE IF n = "X-User-Agent" THEN "caller/1.0" ELSE "token"]}

\* The trailers a caller passes to run: {} and {"a": "1"}, as item lists.
CallerTrailers == {<<>>, <<<<<<97>>, <<49>>>>>>}

\* The value of a type in which every int is n and every str is s.
RECURSIVE UniformValue(_, _, _)
UniformValue(type, n, s) ==
    IF type.k = "OPT" THEN UniformValue(type.type, n, s)
    ELSE IF type.k = "INT32" THEN PyInt(n)
    ELSE IF type.k = "STRING" THEN PyStr(s)
    ELSE PyDict([name \in {type.fields[i].name : i \in 1 .. Len(type.fields)} |->
                    UniformValue(
                        type.fields[CHOOSE i \in 1 .. Len(type.fields) :
                                        type.fields[i].name = name].type, n, s)])

\* The messages a caller passes to run: every field 0 or "", and every field
\* 1 or "hi".
CallerMessages(type) ==
    {UniformValue(type, 0, <<>>), UniformValue(type, 1, StrHi)}

\* The bodies the transport answers a call with: a message, a message with
\* trailers, and a message that does not decode.
CallResponses ==
    {b64encode(write_frame(FrameIdMESSAGE, <<8>>).val),
     b64encode(write_frame(FrameIdMESSAGE, <<8>>).val
                   \o write_frame(FrameIdTRAILER, TrailerA).val),
     b64encode(write_frame(FrameIdMESSAGE, <<8, 1>>).val)}

Init ==
    /\ schema \in Schemas
    /\ VarintIdle /\ CodecIdle /\ FrameIdle /\ ResponseIdle /\ TrailerIdle /\ CallsIdle

\* generate_method.run: the call is made with the caller's arguments.
StartCall(message, headers, trailers) ==
    [IdleCall EXCEPT !.pc = "Building", !.message = message,
                     !.headers = headers, !.trailers = trailers]

\* unary_unary_call up to the POST: the request leaves, or encoding raised.
RequestBuilt(c, request_headers, request_data) ==
    IF request_data.err # ""
    THEN [c EXCEPT !.pc = "Failed", !.error = request_data.err]
    ELSE [c EXCEPT !.pc = "Sent", !.sent_headers = request_headers,
                   !.request_data = request_data.val,
                   !.exchanges = c.exchanges + 1]

BuildCall(c, type) ==
    RequestBuilt(c, MergeHeaders(c.headers),
                 encode_unary_request(type, c.message, c.trailers))

\* await response.read() returned the body.
ResponseRead(c, response_data) ==
    [c EXCEPT !.pc = "Parsing", !.response_data = response_data]

\* A failed exchange that is tried again instead of raised.
ExchangeRetried(c) == [c EXCEPT !.pc = "Building"]

\* The POST or the read raised: the exception leaves unary_unary_call.
ExchangeRaised(c) == [c EXCEPT !.pc = "Failed", !.error = "ClientError"]

\* unary_unary_call after the exchange: the call returns what
\* decode_unary_response returned, or raises what it raised.
ResponseParsed(c, response) ==
    IF response.err # ""
    THEN [c EXCEPT !.pc = "Failed", !.error = response.err]
    ELSE [c EXCEPT !.pc = "Done", !.response_message = response.message,
                   !.response_trailers = response.trailers]

\* The response body kept in one place for every call.
ResponseDataShared(cs, i) == cs[1].response_data

\* The response body a call decodes: its own local response_data.
ResponseData(cs, i) == cs[i].response_data

ParseCall(cs, i, type) ==
    ResponseParsed(cs[i], decode_unary_response(ResponseData(cs, i), type))

Run(i) ==
    /\ calls[i].pc = "Idle"
    /\ \E message \in CallerMessages(schema), headers \in CallerHeaders,
          trailers \in CallerTrailers :
          calls' = [calls EXCEPT ![i] = StartCall(message, headers, trailers)]
    /\ UNCHANGED <<schema, varintVars, codecVars, frameVars, responseVars,
                 trailerVars>>

Build(i) ==
    /\ calls[i].pc = "Building"
    /\ calls' = [calls EXCEPT ![i] = BuildCall(calls[i], schema)]
    /\ UNCHANGED <<schema, varintVars, codecVars, frameVars, responseVars,
                 trailerVars>>

Exchange(i) ==
    /\ calls[i].pc = "Sent"
    /\ \E response_data \in CallResponses :
          calls' = [calls EXCEPT ![i] = ResponseRead(calls[i], response_data)]
    /\ UNCHANGED <<schema, varintVars, codecVars, frameVars, responseVars,
                 trailerVars>>

ExchangeFails(i) ==
    /\ calls[i].pc = "Sent"
    /\ calls' = [calls EXCEPT ![i] = ExchangeRaised(calls[i])]
    /\ UNCHANGED <<schema, varintVars, codecVars, frameVars, responseVars,
                 trailerVars>>

Parse(i) ==
    /\ calls[i].pc = "Parsing"
    /\ calls' = [calls EXCEPT ![i] = ParseCall(calls, i, schema)]
    /\ UNCHANGED <<schema, varintVars, codecVars, frameVars, responseVars,
                 trailerVars>>

Next ==
    \E i \in Calls :
        Run(i) \/ Build(i) \/ Exchange(i) \/ ExchangeFails(i) \/ Parse(i)

Spec == Init /\ [][Next]_vars

-----------------------------------------------------------------------------
(* The claims. *)

\* A decoded mapping with every absent OptionalType field at its default.
RECURSIVE WithDefaults(_, _)
WithDefaults(type, d) ==
    LET fields == type.fields
        present == {i \in 1 .. Len(fields) :
                       fields[i].name \in DOMAIN d \/ fields[i].type.k = "OPT"}
    IN  [n \in {fields[i].name : i \in present} |->
            LET ft == fields[CHOOSE i \in present : fields[i].name = n].type
                base == IF ft.k = "OPT" THEN ft.type ELSE ft
            IN  IF n \notin DOMAIN d THEN ft.value
                ELSE IF base.k = "MSG" /\ d[n].k = "dict"
                THEN PyDict(WithDefaults(base, d[n].d))
                ELSE d[n]]

\* C1: every value that conforms to the schema is encoded, and decoding the
\* bytes gives back the value, a field that was left out because it equals
\* its OptionalType default reading back as that default (also when every
\* field was left out and the message is zero bytes long).
C1_RoundTrip ==
    /\ cpc = "encoded" => cwire.err = ""
    /\ cpc = "decoded" =>
          /\ cout.err = ""
          /\ PyDict(WithDefaults(schema, cout.val.d)) = cval

\* C2: a region that ends in the middle of a field is never decoded to the
\* mapping of the fields before the cut: the decode fails.
C2_NoPartialMessage ==
    (cpc = "read" /\ cout.trunc) => cout.err # ""

\* The ids of the frames of a frame list.
FrameIds(frames) == [i \in 1 .. Len(frames) |-> frames[i].id]

\* decode_unary_response's outcome for a body whose frames have the ids ids:
\* the errors of the frame count and order, which the ids alone decide.
FrameOrderOutcome(ids, out) ==
    /\ (Len(ids) = 0 \/ (Len(ids) = 1 /\ ids[1] # FrameIdMESSAGE))
          => out.err = "FrameExpectedError"
    /\ ((Len(ids) = 2 /\ ids # <<FrameIdMESSAGE, FrameIdTRAILER>>) \/ Len(ids) >= 3)
          => out.err = "UnexpectedFrameError"
    /\ out.err = "" =>
          /\ ids \in {<<FrameIdMESSAGE>>, <<FrameIdMESSAGE, FrameIdTRAILER>>}
          /\ Len(ids) = 1 => out.trailers = EmptyDict
    /\ ids \in {<<FrameIdMESSAGE>>, <<FrameIdMESSAGE, FrameIdTRAILER>>}
          => out.err \notin {"FrameExpectedError", "UnexpectedFrameError"}

\* C3, as amended: zero frames or one frame that is no MESSAGE fail with
\* FrameExpectedError; two frames other than MESSAGE then TRAILER, and three
\* or more frames, fail with UnexpectedFrameError; decode_unary_response
\* succeeds only on [MESSAGE] (with no trailers) or [MESSAGE, TRAILER], and
\* on these two it never fails with one of the two frame errors.
C3_FrameOrderDecidesErrors ==
    rpc = "decoded" =>
        LET raw == b64decode(rbody)
            frames == decode_frames(raw.val)
        IN  (raw.err = "" /\ frames.err = "")
                => FrameOrderOutcome(FrameIds(frames.val), rout)

\* C3, as stated: on top of that, decode_unary_response succeeds on every
\* [MESSAGE] and every [MESSAGE, TRAILER].
C3_SucceedsByFrameIdsAlone ==
    rpc = "decoded" =>
        LET raw == b64decode(rbody)
            frames == decode_frames(raw.val)
        IN  (raw.err = "" /\ frames.err = "") =>
                /\ FrameOrderOutcome(FrameIds(frames.val), rout)
                /\ FrameIds(frames.val) \in
                       {<<FrameIdMESSAGE>>, <<FrameIdMESSAGE, FrameIdTRAILER>>}
                       => rout.err = ""

\* A [MESSAGE, TRAILER] body was decoded to a message and its trailers.
C3_Witness ==
    /\ rpc = "decoded"
    /\ rout.err = ""
    /\ rout.trailers # EmptyDict
    /\ Len(decode_frames(b64decode(rbody).val).val) = 2

\* C4: the headers sent with a request hold Accept, Content-Type and
\* X-User-Agent at the protocol's values whatever the caller passed under
\* these names, and every other header of the caller unchanged.
C4_ProtocolHeadersWin ==
    \A i \in Calls :
        calls[i].exchanges > 0 =>
            LET sent == calls[i].sent_headers
                fixed == {"Accept", "Content-Type", "X-User-Agent"}
            IN  /\ DOMAIN sent = DOMAIN calls[i].headers \cup fixed
                /\ sent["Accept"] = "application/grpc-web-text"
                /\ sent["Content-Type"] = "application/grpc-web-text"
                /\ sent["X-User-Agent"] = "grpc-web-javascript/0.1"
                /\ \A n \in DOMAIN calls[i].headers \ fixed :
                       sent[n] = calls[i].headers[n]

\* A request was sent for a caller who passed its own Accept, Content-Type
\* and X-User-Agent, and one more header.
C4_Witness ==
    \E i \in Calls :
        /\ calls[i].exchanges > 0
        /\ {"Accept", "Authorization"} \subseteq DOMAIN calls[i].headers
        /\ calls[i].headers["Accept"] = "text/plain"

\* C5: a varint written by write_varint has the continuation bit on every
\* byte but the last, and read_varint reads the value back from it and stops
\* right after its last byte.
C5_VarintRoundTrip ==
    /\ vpc # "start" =>
          /\ Len(vbuf) >= 1
          /\ \A k \in 1 .. Len(vbuf) - 1 : vbuf[k] >= 128 /\ vbuf[k] <= 255
          /\ vbuf[Len(vbuf)] < 128
    /\ vpc = "read" =>
          /\ vout.err = ""
          /\ vout.val = vin
          /\ vout.pos = Len(vbuf) + 1

\* A three-byte varint was read back from a stream in which a byte with the
\* continuation bit follows it.
C5_Witness ==
    /\ vpc = "read"
    /\ vin >= 16384
    /\ Len(vbuf) = 3
    /\ vtail # <<>> /\ vtail[1] = 128

\* C6: the frames written back to back are read back in the same order with
\* the same ids and payloads, and reading the first consumes 1 + 4 +
\* len(payload) bytes.
C6_FrameRoundTrip ==
    fpc = "decoded" =>
        /\ fout.err = ""
        /\ fout.val = fwritten
        /\ fwritten # <<>> =>
              LET first == read_frame(fbuf, 1)
              IN  /\ first.err = ""
                  /\ first.id = fwritten[1].id
                  /\ first.data = fwritten[1].data
                  /\ first.pos - 1 = 1 + 4 + Len(fwritten[1].data)

\* Two frames were read back: a TRAILER with an empty payload, then a MESSAGE
\* whose payload looks like a frame id.
C6_Witness ==
    /\ fpc = "decoded"
    /\ Len(fwritten) = 2
    /\ fwritten[1] = [id |-> FrameIdTRAILER, data |-> <<>>]
    /\ fwritten[2].id = FrameIdMESSAGE
    /\ fwritten[2].data # <<>> /\ fwritten[2].data[1] = 128

\* The dict of an item list.
RECURSIVE ItemsDict(_)
ItemsDict(items) ==
    IF items = <<>> THEN EmptyDict
    ELSE DictSet(ItemsDict(SubSeq(items, 1, Len(items) - 1)),
                 items[Len(items)][1], items[Len(items)][2])

\* C7: the body of a request is the base64 text of one MESSAGE frame, which
\* holds the encoded message, followed by one TRAILER frame, which holds the
\* trailers, when there are trailers, and by nothing when there are none.
C7_RequestBody ==
    \A i \in Calls :
        calls[i].exchanges > 0 =>
            LET raw == b64decode(calls[i].request_data)
                frames == decode_frames(raw.val)
                encoded == write_message(schema, calls[i].message.d)
            IN  /\ raw.err = ""
                /\ b64encode(raw.val) = calls[i].request_data
                /\ frames.err = ""
                /\ FrameIds(frames.val) =
                       IF calls[i].trailers = <<>>
                       THEN <<FrameIdMESSAGE>>
                       ELSE <<FrameIdMESSAGE, FrameIdTRAILER>>
                /\ encoded.err = ""
                /\ frames.val[1].data = encoded.val
                /\ calls[i].trailers # <<>> =>
                       decode_trailers(frames.val[2].data) =
                           Ok(ItemsDict(calls[i].trailers))

\* One request was sent with trailers and one without.
C7_Witness ==
    \E i, j \in Calls :
        /\ calls[i].exchanges > 0 /\ calls[i].trailers # <<>>
        /\ calls[j].exchanges > 0 /\ calls[j].trailers = <<>>

\* The steps of a call from one stage to the next.
StageEdges ==
    {<<"Idle", "Building">>, <<"Building", "Sent">>, <<"Building", "Failed">>,
     <<"Sent", "Parsing">>, <<"Sent", "Failed">>,
     <<"Parsing", "Done">>, <<"Parsing", "Failed">>}

StageStep(a, b) ==
    \/ a = b
    \/ /\ <<a.pc, b.pc>> \in StageEdges
       /\ b.exchanges = IF b.pc = "Sent" THEN a.exchanges + 1 ELSE a.exchanges
       /\ b.exchanges <= 1
       /\ b.pc = "Failed" <=> b.error # ""
       /\ b.pc # "Done" =>
             b.response_message = PyNone /\ b.response_trailers = EmptyDict
       /\ b.pc \notin {"Parsing", "Done"} => b.response_data = a.response_data

\* C8: a call goes through Building, Sent, Parsing and Done in this order,
\* or from one of the first three to Failed with the error raised there; it
\* makes at most one exchange, decodes only a response the exchange returned,
\* and leaves neither Done nor Failed (nothing is tried again).
C8_CallStages ==
    [][\A i \in Calls : StageStep(calls[i], calls'[i])]_vars

\* One call is Done, and another Failed after its exchange had returned.
C8_Witness ==
    \E i, j \in Calls :
        /\ calls[i].pc = "Done"
        /\ calls[j].pc = "Failed"
        /\ calls[j].exchanges = 1
        /\ calls[j].response_data # <<>>

\* C9: whatever the interleaving of the calls, what a call returned is the
\* decoding of the response body the transport gave to this call, and no
\* step of any call changes the shared schema.
C9_NoInterference ==
    [][/\ schema' = schema
       /\ \A i \in Calls :
             calls'[i].pc = "Done" =>
                 LET own == decode_unary_response(calls'[i].response_data, schema')
                 IN  /\ own.err = ""
                     /\ calls'[i].response_message = own.message
                     /\ calls'[i].response_trailers = own.trailers]_vars

\* Two calls were answered with different bodies and returned different
\* trailers.
C9_Witness ==
    \E i, j \in Calls :
        /\ calls[i].pc = "Done" /\ calls[j].pc = "Done"
        /\ calls[i].response_data # calls[j].response_data
        /\ calls[i].response_trailers # calls[j].response_trailers

\* C10: when a tag is read whose field number is no key of the fields it is
\* looked up in, at the top of the region or inside a nested message, the
\* decode fails with the lookup's KeyError (the spec's UnknownFieldError) and
\* returns no mapping.
C10_UnknownFieldFails ==
    (cpc = "read" /\ cout.unk) =>
        /\ cout.err = "KeyError"
        /\ cout.val = PyNone

\* An unknown field number was read inside a nested message: the first tag
\* of the region is a key of the schema.
C10_Witness ==
    /\ cpc = "read"
    /\ cout.unk
    /\ Len(cin) = 3
    /\ FieldIndex(schema.fields, cin[1] \div 8) # 0

\* What is left of a buffer once the whole frames at its front (a frame id,
\* four length bytes and as many payload bytes as they say) are taken off.
RECURSIVE Remainder(_)
Remainder(data) ==
    IF /\ Len(data) >= 5
       /\ data[1] \in {FrameIdMESSAGE, FrameIdTRAILER}
       /\ Len(data) - 5 >= FromBytes(SubSeq(data, 2, 5))
    THEN Remainder(SubSeq(data, 6 + FromBytes(SubSeq(data, 2, 5)), Len(data)))
    ELSE data

\* Bytes that are shorter than a full frame: fewer than 5 header bytes, or
\* fewer payload bytes than the header's length.
ShorterThanFrame(data) ==
    \/ Len(data) < 5
    \/ Len(data) - 5 < FromBytes(SubSeq(data, 2, 5))

\* decode_frames returns frames only for a buffer of whole frames, and what
\* it raises is what decode_unary_response raises for that buffer.
ConsumesOrFails(rest) ==
    /\ fout.err = "" <=> rest = <<>>
    /\ fout.err # "" =>
          decode_unary_response(b64encode(fbuf), schema).err = fout.err

\* C11, as amended: decode_frames consumes the buffer completely or fails,
\* and then decode_unary_response fails with the same error and sees no
\* frames; when the bytes after the last whole frame start with a byte
\* other than 0x00 and 0x80 it fails with UnknownFrameIdError, also when
\* they are shorter than a full frame; when they start with 0x00 or 0x80 and
\* are shorter than a full frame it fails with EOFError (the spec's
\* StreamTruncatedError).
C11_ConsumesAllOrFails ==
    fpc = "read" =>
        LET rest == Remainder(fbuf)
        IN  /\ ConsumesOrFails(rest)
            /\ (rest # <<>> /\ rest[1] \notin {FrameIdMESSAGE, FrameIdTRAILER})
                   => fout.err = "UnknownFrameIdError"
            /\ (rest # <<>> /\ rest[1] \in {FrameIdMESSAGE, FrameIdTRAILER}
                             /\ ShorterThanFrame(rest))
                   => fout.err = "EOFError"

\* C11, as stated: whenever the bytes after the last whole frame are
\* non-empty and shorter than a full frame, decode_frames fails with EOFError,
\* whatever their first byte; a first byte other than 0x00 and 0x80 fails
\* with UnknownFrameIdError.
C11_EveryShortTailIsTruncation ==
    fpc = "read" =>
        LET rest == Remainder(fbuf)
        IN  /\ ConsumesOrFails(rest)
            /\ (rest # <<>> /\ ShorterThanFrame(rest))
                   => fout.err = "EOFError"
            /\ (rest # <<>> /\ Len(rest) >= 5
                             /\ rest[1] \notin {FrameIdMESSAGE, FrameIdTRAILER})
                   => fout.err = "UnknownFrameIdError"

\* A buffer was read in which a whole frame is followed by a full header
\* with fewer payload bytes than the header says.
C11_Witness ==
    /\ fpc = "read"
    /\ Len(fwritten) = 1
    /\ Len(Remainder(fbuf)) > 5
    /\ Remainder(fbuf)[1] = FrameIdTRAILER
    /\ fout.err = "EOFError"

\* The lines of a text: its CRLF-separated segments but for the empty
\* segment that follows the final CRLF.
TextLines(text) ==
    LET segments == SplitCRLF(text, 1, <<>>, <<>>)
    IN  IF segments[Len(segments)] = <<>>
        THEN SubSeq(segments, 1, Len(segments) - 1)
        ELSE segments

\* The mapping of lines that all hold a colon: the key before the first
\* colon to the value after it, both trimmed, a later line overwriting an
\* earlier one with the same key.
RECURSIVE LinesDict(_)
LinesDict(lines) ==
    IF lines = <<>> THEN EmptyDict
    ELSE LET line == lines[Len(lines)]
             c == FirstColon(line)
         IN  DictSet(LinesDict(SubSeq(lines, 1, Len(lines) - 1)),
                     Strip(SubSeq(line, 1, c - 1)),
                     Strip(SubSeq(line, c + 1, Len(line))))

\* C12: decode_trailers leaves out only the empty segment after the final
\* CRLF: when a line has no colon it fails (ValueError, the spec's
\* MalformedTrailerError), otherwise every line gives its key and value to
\* the mapping returned, so no non-empty line is dropped.
C12_NoLineDropped ==
    tpc = "decoded" =>
        LET lines == TextLines(Utf8Decode(tdata).val)
        IN  IF \E i \in 1 .. Len(lines) : FirstColon(lines[i]) = 0
            THEN tout.err = "ValueError"
            ELSE tout = Ok(LinesDict(lines))

=============================================================================
